---- MODULE Spec2Model ----
(***************************************************************************)
(* A model of check_container_stats_docker.py (the container check) and    *)
(* check_docker_system.py (the engine check): the severity update rule,    *)
(* the threshold fold, the completeness predicate, the socket read loop,   *)
(* the container lookup, the control flow of both main programs, the       *)
(* engine check's two endpoint calls and its derivation, and the byte-unit *)
(* conversion of the podman check.                                         *)
(*                                                                         *)
(* Text is modelled as a sequence of one-character tokens.  The token      *)
(* "h" stands for the character 'H' (any character that is neither a line  *)
(* break nor JSON punctuation), "NL" for a line feed, and "{", "}", "[",   *)
(* "]" for themselves.                                                     *)
(***************************************************************************)
EXTENDS Integers, Sequences, FiniteSets, TLC

VARIABLES
    \* the severity update rule applied to a sequence of candidates
    sevStart, sevCands, sevPrev, sevState,
    \* the tail of the container check's main(): state check and threshold fold
    args, container, returncode, tpc,
    \* the completeness predicate applied to a growing buffer
    vprog, buffer, verdict,
    \* one call of send_socket_cmd and the peer on the other end of the socket
    prog, pc, buf, sock, exitcode, wire, peer,
    \* one call of get_container_from_name
    largs, lresponse, lresult,
    \* one run of a check program: the requests it sent, the replies it got
    cprog, cpc, sent, results, cause, cinfo, derived, cexit,
    \* the engine check after the join: both payloads, the derivation, the thresholds
    eargs, docker_sysinfo, docker_volinfo, engine_state, epc, eresult,
    \* one call of convert_to_bytes: the text, the parts it was written from, the result
    size_parts, size_text, size_bytes,
    \* the read loop of send_socket_cmd over the results of its recv calls
    rprog, rbuf, rchunks, rpc,
    \* the two tasks of the engine check's asyncio.gather and the join
    order, replies, gsent, gpc, gcause, gexit

sevVars == <<sevStart, sevCands, sevPrev, sevState>>
thrVars == <<args, container, returncode, tpc>>
validVars == <<vprog, buffer, verdict>>
sockVars == <<prog, pc, buf, sock, exitcode, wire, peer>>
lookVars == <<largs, lresponse, lresult>>
checkVars == <<cprog, cpc, sent, results, cause, cinfo, derived, cexit>>
engVars == <<eargs, docker_sysinfo, docker_volinfo, engine_state, epc, eresult>>
sizeVars == <<size_parts, size_text, size_bytes>>
loopVars == <<rprog, rbuf, rchunks, rpc>>
gatherVars == <<order, replies, gsent, gpc, gcause, gexit>>
vars == <<sevVars, thrVars, validVars, sockVars, lookVars, checkVars, engVars, sizeVars, loopVars, gatherVars>>

----------------------------------------------------------------------------
(* Exit codes of exit_plugin. *)
OK == 0
WARNING == 1
CRITICAL == 2
UNKNOWN == 3
Severity == {OK, WARNING, CRITICAL, UNKNOWN}

(* Bounds of the model. *)
MaxFold == 3
MaxVal == 1
MaxBuf == 5
MaxResp == 5
MaxContainers == 2
MaxRunning == 4
MaxDigits == 3
MaxExp == 3
MaxRead == 4

----------------------------------------------------------------------------
(* set_state(newstate, state): the severity update rule.  Both programs    *)
(* carry the same text.                                                    *)

set_state_no_current(newstate, state) ==
    IF newstate = 2 THEN 2
    ELSE IF newstate = 1 THEN 1
    ELSE IF newstate = 3 /\ state \notin {1, 2} THEN 3
    ELSE 0

set_state(newstate, state) ==
    IF (newstate = 2) \/ (state = 2) THEN 2
    ELSE IF (newstate = 1) /\ (state \notin {2}) THEN 1
    ELSE IF (newstate = 3) /\ (state \notin {1, 2}) THEN 3
    ELSE 0

(* combine(current, candidate) of the specification is                     *)
(* set_state(newstate = candidate, state = current).                       *)

SeverityIdle == sevStart = 0 /\ sevCands = <<>> /\ sevPrev = 0 /\ sevState = 0

SeverityInit ==
    /\ sevStart \in Severity
    /\ sevCands = <<>>
    /\ sevPrev = sevStart
    /\ sevState = sevStart

(* One call  state = set_state(candidate, state). *)
ApplySetState ==
    /\ Len(sevCands) < MaxFold
    /\ \E candidate \in Severity :
          /\ sevState' = set_state(candidate, sevState)
          /\ sevCands' = Append(sevCands, candidate)
    /\ sevPrev' = sevState
    /\ UNCHANGED sevStart

----------------------------------------------------------------------------
(* The tail of main() of the container check: lines 380-382 and 410-431.   *)

None == {}
Optional(S) == {None} \cup {{v} : v \in S}
IsSet(opt) == opt # None
Below(opt, metric) == \E t \in opt : t < metric

ThresholdNames == {"cpuwarn", "cpucrit", "memwarn", "memcrit", "pidwarn", "pidcrit"}
Values == 0 .. MaxVal
ArgsSet == [ThresholdNames -> Optional(Values)]

StatusTexts == { <<"Up">>, <<"Up", "(healthy)">>, <<"Up", "(unhealthy)">>,
                 <<"Exited">> }
ContainerStates == {"running", "paused", "exited"}
ContainerSet == [state : ContainerStates, status : StatusTexts,
                 cpu_pct : Values, memory_used : Values, pid_count : Values]

(* "(unhealthy)" in container['status'] *)
Contains(text, word) == \E i \in 1 .. Len(text) : text[i] = word

determine_return_code_warn_only(a, c) ==
    LET r0 == 0
        r1 == IF Contains(c.status, "(unhealthy)") THEN set_state(1, r0) ELSE r0
        r2 == IF c.state # "running" THEN set_state(2, r1) ELSE r1
        r3 == IF IsSet(a.cpuwarn) /\ Below(a.cpuwarn, c.cpu_pct) THEN set_state(1, r2) ELSE r2
        r4 == IF IsSet(a.cpucrit) /\ Below(a.cpucrit, c.cpu_pct) THEN set_state(1, r3) ELSE r3
        r5 == IF IsSet(a.memwarn) /\ Below(a.memwarn, c.memory_used) THEN set_state(1, r4) ELSE r4
        r6 == IF IsSet(a.memcrit) /\ Below(a.memcrit, c.memory_used) THEN set_state(2, r5) ELSE r5
        r7 == IF IsSet(a.pidwarn) /\ Below(a.pidwarn, c.pid_count) THEN set_state(1, r6) ELSE r6
        r8 == IF IsSet(a.pidcrit) /\ Below(a.pidcrit, c.pid_count) THEN set_state(2, r7) ELSE r7
    IN  r8

(* main(), lines 410-429: the return code after the eight checks. *)
determine_return_code(a, c) ==
    LET r0 == 0
        r1 == IF Contains(c.status, "(unhealthy)") THEN set_state(1, r0) ELSE r0
        r2 == IF c.state # "running" THEN set_state(2, r1) ELSE r1
        r3 == IF IsSet(a.cpuwarn) /\ Below(a.cpuwarn, c.cpu_pct) THEN set_state(1, r2) ELSE r2
        r4 == IF IsSet(a.cpucrit) /\ Below(a.cpucrit, c.cpu_pct) THEN set_state(2, r3) ELSE r3
        r5 == IF IsSet(a.memwarn) /\ Below(a.memwarn, c.memory_used) THEN set_state(1, r4) ELSE r4
        r6 == IF IsSet(a.memcrit) /\ Below(a.memcrit, c.memory_used) THEN set_state(2, r5) ELSE r5
        r7 == IF IsSet(a.pidwarn) /\ Below(a.pidwarn, c.pid_count) THEN set_state(1, r6) ELSE r6
        r8 == IF IsSet(a.pidcrit) /\ Below(a.pidcrit, c.pid_count) THEN set_state(2, r7) ELSE r7
    IN  r8

NoArgs == [n \in ThresholdNames |-> None]
NoContainer == [state |-> "running", status |-> <<"Up">>,
                cpu_pct |-> 0, memory_used |-> 0, pid_count |-> 0]
ThresholdsIdle ==
    /\ args = NoArgs /\ container = NoContainer /\ returncode = 0 /\ tpc = "idle"

ThresholdsInit ==
    /\ args \in ArgsSet
    /\ container \in ContainerSet
    /\ returncode = 0
    /\ tpc = "check_running"

(* main(), lines 380-382: a container that is not running ends the check. *)
ExitNotRunning ==
    /\ tpc = "check_running"
    /\ container.state # "running"
    /\ returncode' = 2
    /\ tpc' = "exited"
    /\ UNCHANGED <<args, container>>

(* main(), lines 384-431 for a running container: the metrics are those of *)
(* `container`; the thresholds are folded and the plugin exits.            *)
EvaluateThresholds ==
    /\ tpc = "check_running"
    /\ container.state = "running"
    /\ returncode' = determine_return_code(args, container)
    /\ tpc' = "exited"
    /\ UNCHANGED <<args, container>>

----------------------------------------------------------------------------
(* Text, str.splitlines and json.loads.                                    *)

Tokens == {"h", "NL", "{", "}", "[", "]"}
Programs == {"container", "system"}

(* The index of the first token of s equal to t, 0 when there is none. *)
RECURSIVE FindFrom(_, _, _)
FindFrom(s, t, i) ==
    IF i > Len(s) THEN 0
    ELSE IF s[i] = t THEN i
    ELSE FindFrom(s, t, i + 1)

(* str.splitlines(): the lines of s, each ended by a line break or by the  *)
(* end of the text; a text that ends with a line break has no last empty   *)
(* line.                                                                   *)
RECURSIVE splitlines(_)
splitlines(s) ==
    IF s = <<>> THEN <<>>
    ELSE LET i == FindFrom(s, "NL", 1)
         IN  IF i = 0 THEN <<s>>
             ELSE <<SubSeq(s, 1, i - 1)>> \o splitlines(SubSeq(s, i + 1, Len(s)))

(* The JSON grammar over the tokens: an object is "{}" (a member needs a   *)
(* quoted key), an array is "[]" or "[" value "]" (further elements need a *)
(* comma).  JsonValueEnd is the index after the value that starts at i, 0  *)
(* when no value starts there.                                             *)
RECURSIVE JsonValueEnd(_, _)
JsonValueEnd(s, i) ==
    IF i + 1 > Len(s) THEN 0
    ELSE IF s[i] = "{" THEN (IF s[i + 1] = "}" THEN i + 2 ELSE 0)
    ELSE IF s[i] = "[" THEN
        IF s[i + 1] = "]" THEN i + 2
        ELSE LET e == JsonValueEnd(s, i + 1)
             IN  IF e = 0 \/ e > Len(s) THEN 0
                 ELSE IF s[e] = "]" THEN e + 1 ELSE 0
    ELSE 0

(* json.loads(s) returns (TRUE) or raises ValueError (FALSE): the whole    *)
(* text must be one value.                                                 *)
json_loads_ok(s) == JsonValueEnd(s, 1) = Len(s) + 1

----------------------------------------------------------------------------
(* check_valid_response(buffer), the completeness predicate.  The result   *)
(* is "True", "False" or "ValueError" (list.index raises it when no line   *)
(* is empty; nothing in the function catches it).                          *)

(* re.match(r"\{", line) or re.match(r"\[", line) in the container check;  *)
(* re.match(r"\{", line) alone in the engine check.                        *)
JsonStarts(p) == IF p = "container" THEN {"{", "["} ELSE {"{"}

(* The for loop: the index of the first line that starts with one of       *)
(* `starts`, 0 when there is none.                                         *)
RECURSIVE FirstJsonLine(_, _, _)
FirstJsonLine(lines, starts, i) ==
    IF i > Len(lines) THEN 0
    ELSE IF lines[i] # <<>> /\ lines[i][1] \in starts THEN i
    ELSE FirstJsonLine(lines, starts, i + 1)

ValidResponse(starts, text) ==
    IF Len(text) = 0 THEN "False"
    ELSE LET http_lines == splitlines(text)
             start_pos == FindFrom(http_lines, <<>>, 1)
         IN  IF start_pos = 0 THEN "ValueError"
             ELSE LET body == SubSeq(http_lines, start_pos, Len(http_lines))
                      j == FirstJsonLine(body, starts, 1)
                  IN  IF j = 0 THEN "False"
                      ELSE IF json_loads_ok(body[j]) THEN "True"
                      ELSE "False"

check_valid_response_same_in_both(p, text) == ValidResponse({"{", "["}, text)

check_valid_response(p, text) == ValidResponse(JsonStarts(p), text)

ValidIdle == vprog = "container" /\ buffer = <<>> /\ verdict = "none"

ValidInit ==
    /\ vprog \in Programs
    /\ buffer = <<>>
    /\ verdict = "none"

(* The buffer grows by one character. *)
AppendToBuffer ==
    /\ Len(buffer) < MaxBuf
    /\ \E t \in Tokens : buffer' = Append(buffer, t)
    /\ verdict' = "none"
    /\ UNCHANGED vprog

(* One call check_valid_response(buffer). *)
CallCheckValid ==
    /\ verdict = "none"
    /\ verdict' = check_valid_response(vprog, buffer)
    /\ UNCHANGED <<vprog, buffer>>

----------------------------------------------------------------------------
(* send_socket_cmd(cmd, socketfile): one exchange over the socket.         *)
(*                                                                         *)
(* pc is the position of the call: "connect" at sock.connect, "send" at    *)
(* sock.sendall, "recv" at sock.recv in the loop, "sleep" in time.sleep of *)
(* the first branch, "check" at check_valid_response(buf), and at the end  *)
(* "returned" (the call returns buf), "exited" (exit_plugin ended the      *)
(* process) or "crashed" (an exception no handler catches).  sock is the   *)
(* socket the call created.  wire holds the bytes the peer has written and *)
(* the call has not yet received ("c3", "a9" are the two bytes of one      *)
(* character; every other byte is a character of its own); peer is the     *)
(* peer's end of the connection.                                           *)

RecvSize == 1024

(* The exit code of the process: none while it runs, {code} after          *)
(* exit_plugin(code, ...).                                                 *)
NoExit == {}
Exited(code) == {code}

(* What sock.connect gives: the connection, an exception the handlers     *)
(* name, or an OSError they do not name (NotADirectoryError for a path     *)
(* below a regular file, OSError for an empty or too long path).           *)
ConnectOutcomes == {"connected", "FileNotFoundError", "PermissionError",
                    "TimeoutError", "ConnectionError", "OSError"}
NamedExceptions == {"FileNotFoundError", "PermissionError", "TimeoutError",
                    "ConnectionError"}

(* The except clauses: every exception they name ends in exit_plugin(3).   *)
transport_exit(exc) == 3

Min(a, b) == IF a < b THEN a ELSE b

(* The bytes on the socket: every character of Tokens is one byte, and     *)
(* "c3", "a9" are the two bytes of one two-byte UTF-8 character.           *)
WireBytes == Tokens \cup {"c3", "a9"}

(* data.decode(): UnicodeDecodeError unless every lead byte is followed by *)
(* its continuation byte within the chunk; the two bytes give one          *)
(* character, which is an ordinary one ("h").                              *)
Utf8Ok(data) ==
    \A i \in 1 .. Len(data) :
        /\ (data[i] = "c3" => i < Len(data) /\ data[i + 1] = "a9")
        /\ (data[i] = "a9" => i > 1 /\ data[i - 1] = "c3")
RECURSIVE decode(_)
decode(data) ==
    IF data = <<>> THEN <<>>
    ELSE IF Len(data) >= 2 /\ data[1] = "c3" /\ data[2] = "a9"
    THEN <<"h">> \o decode(SubSeq(data, 3, Len(data)))
    ELSE <<data[1]>> \o decode(Tail(data))

SocketIdle ==
    /\ prog = "container" /\ pc = "idle" /\ buf = <<>> /\ sock = "none"
    /\ exitcode = NoExit /\ wire = <<>> /\ peer = "none"

SocketInit ==
    /\ prog \in Programs
    /\ pc = "connect"
    /\ buf = <<>>
    /\ sock = "none"
    /\ exitcode = NoExit
    /\ wire = <<>>
    /\ peer = "none"

(* socket(), connect() and settimeout(): the connection is made, or one of *)
(* the exceptions the handlers name is raised and exit_plugin ends the     *)
(* process, or an OSError they do not name leaves the call.                *)
Connect ==
    /\ pc = "connect"
    /\ \E outcome \in ConnectOutcomes :
          IF outcome = "connected"
          THEN /\ pc' = "send"
               /\ sock' = "connected"
               /\ peer' = "open"
               /\ UNCHANGED exitcode
          ELSE IF outcome \in NamedExceptions
          THEN /\ pc' = "exited"
               /\ exitcode' = Exited(transport_exit(outcome))
               /\ sock' = "unconnected"
               /\ UNCHANGED peer
          ELSE /\ pc' = "crashed"
               /\ sock' = "unconnected"
               /\ UNCHANGED <<exitcode, peer>>
    /\ UNCHANGED <<prog, buf, wire>>

(* settimeout(), sendall(cmd.encode("ascii")), sleep() and buf = "": a     *)
(* command with a character outside ASCII (the container name is part of  *)
(* it) raises UnicodeEncodeError, which no handler catches, before         *)
(* anything is written; otherwise the request is written (also to a peer   *)
(* that has only shut down its writing side), or, the peer having closed   *)
(* or reset the connection, BrokenPipeError (a ConnectionError) is raised  *)
(* and exit_plugin ends the process.  No handler closes the socket.        *)
Send ==
    /\ pc = "send"
    /\ \/ /\ pc' = "crashed"
          /\ UNCHANGED exitcode
       \/ /\ peer \in {"open", "closed"}
          /\ pc' = "recv"
          /\ UNCHANGED exitcode
       \/ /\ peer \in {"closed", "reset"}
          /\ pc' = "exited"
          /\ exitcode' = Exited(transport_exit("ConnectionError"))
    /\ UNCHANGED <<prog, buf, sock, wire, peer>>

(* What the peer does matters only while the call holds the connection. *)
InLoop == pc \in {"recv", "sleep", "check"}
InCall == pc = "send" \/ InLoop

(* The peer writes one more byte of its response. *)
PeerSend ==
    /\ InCall
    /\ peer = "open"
    /\ Len(buf) + Len(wire) < MaxResp
    /\ \E t \in WireBytes : wire' = Append(wire, t)
    /\ UNCHANGED <<prog, pc, buf, sock, exitcode, peer>>

(* The peer closes its end, or shuts down its writing side: once the       *)
(* written bytes are read, every recv returns zero bytes at once.          *)
PeerClose ==
    /\ InCall
    /\ peer = "open"
    /\ peer' = "closed"
    /\ UNCHANGED <<prog, pc, buf, sock, exitcode, wire>>

(* The peer resets the connection (it closes without having read the      *)
(* request, also after shutting down its writing side); the bytes it wrote *)
(* stay readable.                                                          *)
PeerReset ==
    /\ InCall
    /\ peer \in {"open", "closed"}
    /\ peer' = "reset"
    /\ UNCHANGED <<prog, pc, buf, sock, exitcode, wire>>

(* data = sock.recv(1024) returns bytes, whatever the peer did after       *)
(* writing them: buf += data.decode(), where a chunk that ends inside a    *)
(* character raises UnicodeDecodeError, which no handler catches.          *)
RecvData ==
    /\ pc = "recv"
    /\ wire # <<>>
    /\ LET n == Min(Len(wire), RecvSize)
           data == SubSeq(wire, 1, n)
       IN  /\ wire' = SubSeq(wire, n + 1, Len(wire))
           /\ IF Utf8Ok(data)
              THEN buf' = buf \o decode(data) /\ UNCHANGED pc
              ELSE pc' = "crashed" /\ UNCHANGED buf
    /\ UNCHANGED <<prog, sock, exitcode, peer>>

(* data = sock.recv(1024) returns zero bytes (the peer has closed): with   *)
(* an empty buffer the call sleeps, otherwise it asks the predicate.       *)
RecvNothing ==
    /\ pc = "recv"
    /\ peer = "closed"
    /\ wire = <<>>
    /\ pc' = IF Len(buf) = 0 THEN "sleep" ELSE "check"
    /\ UNCHANGED <<prog, buf, sock, exitcode, wire, peer>>

(* time.sleep(0.01), and around the loop. *)
Sleep ==
    /\ pc = "sleep"
    /\ pc' = "recv"
    /\ UNCHANGED <<prog, buf, sock, exitcode, wire, peer>>

(* if check_valid_response(buf): break, then shutdown, close and return;   *)
(* otherwise around the loop; a ValueError of the predicate is caught by   *)
(* no handler.                                                             *)
CheckBuffer ==
    /\ pc = "check"
    /\ LET complete == check_valid_response(prog, buf)
       IN  \/ /\ complete = "True"
              /\ pc' = "returned"
              /\ sock' = "closed"
           \/ /\ complete = "False"
              /\ pc' = "recv"
              /\ UNCHANGED sock
           \/ /\ complete = "ValueError"
              /\ pc' = "crashed"
              /\ UNCHANGED sock
    /\ UNCHANGED <<prog, buf, exitcode, wire, peer>>

(* sock.recv blocks on a silent open connection until the timeout set by   *)
(* settimeout passes: socket.timeout, handled by exit_plugin(3).           *)
RecvTimeout ==
    /\ pc = "recv"
    /\ peer = "open"
    /\ wire = <<>>
    /\ pc' = "exited"
    /\ exitcode' = Exited(transport_exit("TimeoutError"))
    /\ UNCHANGED <<prog, buf, sock, wire, peer>>

(* sock.recv on a reset connection with nothing left to read:              *)
(* ConnectionResetError, exit_plugin(3).                                   *)
RecvConnectionError ==
    /\ pc = "recv"
    /\ peer = "reset"
    /\ wire = <<>>
    /\ pc' = "exited"
    /\ exitcode' = Exited(transport_exit("ConnectionError"))
    /\ UNCHANGED <<prog, buf, sock, wire, peer>>

----------------------------------------------------------------------------
(* The read loop of send_socket_cmd, lines 150-167, as a function of what  *)
(* its recv calls return.  Here a call may return any chunk of at most     *)
(* RecvSize bytes or zero bytes, in any order.  rbuf is buf, rchunks the   *)
(* non-empty chunks recv has returned so far, rpc is "loop" inside the loop, *)
(* "returned" after the break (the call returns buf), "crashed" after an   *)
(* exception no handler catches, "exited" after exit_plugin in a handler.  *)

Chunks(room) == UNION {[1 .. n -> WireBytes] : n \in 1 .. Min(room, RecvSize)}

LoopIdle ==
    /\ rprog = "container" /\ rbuf = <<>> /\ rchunks = <<>> /\ rpc = "idle"

LoopInit ==
    /\ rprog \in Programs
    /\ rbuf = <<>>
    /\ rchunks = <<>>
    /\ rpc = "loop"

(* data = sock.recv(1024) returns zero bytes: with an empty buffer the     *)
(* call sleeps and goes around; otherwise check_valid_response(buf)        *)
(* decides between break and going around, and its ValueError leaves the   *)
(* call through no handler.                                                *)
ReadNothing ==
    /\ rpc = "loop"
    /\ LET complete == check_valid_response(rprog, rbuf)
       IN  rpc' = IF Len(rbuf) = 0 THEN "loop"
                  ELSE IF complete = "True" THEN "returned"
                  ELSE IF complete = "False" THEN "loop"
                  ELSE "crashed"
    /\ UNCHANGED <<rprog, rbuf, rchunks>>

(* data = sock.recv(1024) returns bytes: buf += data.decode(), where a     *)
(* chunk that ends or begins inside a character raises                    *)
(* UnicodeDecodeError, which no handler catches.                           *)
ReadChunk ==
    /\ rpc = "loop"
    /\ Len(rbuf) < MaxRead
    /\ \E data \in Chunks(MaxRead - Len(rbuf)) :
          /\ rchunks' = Append(rchunks, data)
          /\ IF Utf8Ok(data)
             THEN rbuf' = rbuf \o decode(data) /\ UNCHANGED rpc
             ELSE rpc' = "crashed" /\ UNCHANGED rbuf
    /\ UNCHANGED rprog

(* sock.recv raises socket.timeout or a ConnectionError: exit_plugin(3). *)
ReadRaises ==
    /\ rpc = "loop"
    /\ rpc' = "exited"
    /\ UNCHANGED <<rprog, rbuf, rchunks>>

----------------------------------------------------------------------------
(* get_container_from_name(args): the lookup in the reply to               *)
(* /containers/json.  A container of the reply carries its Id, its Names   *)
(* (a list, read only by membership) and its State.                        *)

ContainerNames == {"a", "b"}
NameEntries == {"/a", "/b", "a"}
ContainerIds == {"id1", "id2"}
Without(d, keys) == [k \in (DOMAIN d) \ keys |-> d[k]]
(* The objects of the reply, each with or without its "Id" and "Names". *)
ContainerInfos ==
    {Without(cnt, absent) :
        cnt \in [Id : ContainerIds, Names : SUBSET NameEntries,
                 State : {"running", "exited"}],
        absent \in SUBSET {"Id", "Names"}}
LookupArgs == [container_name : ContainerNames, wildcard : BOOLEAN]
Responses == UNION {[1 .. n -> ContainerInfos] : n \in 0 .. MaxContainers}

Found(cnt) == [kind |-> "container", info |-> cnt]
ExitPlugin(code, text) == [kind |-> "exit", code |-> code, output |-> text]
NoResult == [kind |-> "none"]
Uncaught(exc, key) == [kind |-> "crash", exc |-> exc, output |-> key]

MaxOf(S) == CHOOSE x \in S : \A y \in S : y <= x

(* f'/{ args.container_name }' in cnt["Names"] *)
NameMatches(a, cnt) == ("/" \o a.container_name) \in cnt.Names

(* Lines 265-281, on the parsed reply: the for loop has no break, so the   *)
(* last container whose Names hold the name is the one returned; it reads  *)
(* cnt["Names"] of every object, and the KeyError of an object without it  *)
(* is caught by nothing.  Wildcard mode reads no entry of the object.      *)
get_container_from_name(a, response) ==
    IF Len(response) = 0
    THEN ExitPlugin(2, "No container matched name")
    ELSE IF a.wildcard /\ Len(response) > 1
    THEN ExitPlugin(2, "Multiple containers matched wildcard name")
    ELSE IF a.wildcard
    THEN Found(response[1])
    ELSE IF \E i \in 1 .. Len(response) : "Names" \notin DOMAIN response[i]
    THEN Uncaught("KeyError", "Names")
    ELSE LET matching == {i \in 1 .. Len(response) : NameMatches(a, response[i])}
         IN  IF matching = {}
             THEN ExitPlugin(2, "No container matched name")
             ELSE Found(response[MaxOf(matching)])

LookupIdle ==
    /\ largs = [container_name |-> "a", wildcard |-> FALSE]
    /\ lresponse = <<>>
    /\ lresult = NoResult

LookupInit ==
    /\ largs \in LookupArgs
    /\ lresponse \in Responses
    /\ lresult = NoResult

CallLookup ==
    /\ lresult = NoResult
    /\ lresult' = get_container_from_name(largs, lresponse)
    /\ UNCHANGED <<largs, lresponse>>

----------------------------------------------------------------------------
(* The two main programs, one step per endpoint request.                   *)
(*                                                                         *)
(* sent holds the endpoints requested so far and results, for each of      *)
(* them, what its socket exchange gave: a reply with its HTTP status, or    *)
(* the exception that ended it.  cause is what ended the check (or, in the *)
(* engine check, the exception of the first task that waits for the join), *)
(* derived whether the metrics were derived and the thresholds evaluated.  *)
(* cpc = "exited" after exit_plugin, with its code in cexit; cpc =         *)
(* "crashed" after an exception that no handler catches.                   *)

TransportErrors == {"FileNotFoundError", "PermissionError", "TimeoutError",
                    "ConnectionError"}
Statuses == {200, 201, 404, 500}
NoInfo == [Id |-> "id1", Names |-> {}, State |-> "exited", Status |-> <<"Exited">>]

(* send_http_get of the container check, lines 121-129: any status other   *)
(* than 200 ends the check with exit_plugin(2).                            *)
http_status_ok(status) == status = 200

(* What one send_socket_cmd call gives its caller: an exception the        *)
(* handlers turn into exit_plugin, an exception they do not name (the      *)
(* ValueError of the completeness predicate, of cmd.encode() or of         *)
(* data.decode(), the OSError of connect), or a reply.                     *)
RaisedKinds == {"ValueError", "OSError"}
ExchangeResults ==
    [kind : {"error"}, exc : TransportErrors] \cup
    [kind : RaisedKinds] \cup
    [kind : {"reply"}, status : Statuses]

Exit(code, why) ==
    /\ cpc' = "exited"
    /\ cexit' = Exited(code)
    /\ cause' = why

Crash(why) ==
    /\ cpc' = "crashed"
    /\ cause' = why
    /\ UNCHANGED cexit

(* The part of send_http_get that both programs share: the request goes    *)
(* out; a transport error ends the process with the handlers' exit code.   *)
Request(endpoint, x) ==
    /\ sent' = Append(sent, endpoint)
    /\ results' = Append(results, x)

Broken(x) == x.kind # "reply"
EndBroken(x) ==
    IF x.kind = "error" THEN Exit(transport_exit(x.exc), "transport")
    ELSE Crash(x.kind)

(* parse_docker_sysinfo and the threshold checks of the engine check. *)
EngineThresholds == {"minrunning", "maxpaused", "maxstopped", "maximages", "maxvolumes"}
RunningValues == 0 .. MaxRunning
EngineArgs ==
    {a \in [EngineThresholds -> Optional(RunningValues)] :
        \A t \in EngineThresholds \ {"minrunning"} : a[t] \subseteq Values}
EngineStates == [running : RunningValues, paused : Values, stopped : Values,
                 images : Values, volcount : Values]
Above(opt, metric) == \E t \in opt : metric > t
Under(opt, metric) == \E t \in opt : metric < t

(* The threshold checks with the running count compared by <=. *)
engine_return_code_at_most(a, e) ==
    LET s0 == 0
        s1 == IF IsSet(a.minrunning) /\ (\E t \in a.minrunning : e.running <= t)
              THEN set_state(1, s0) ELSE s0
        s2 == IF IsSet(a.maxpaused) /\ Above(a.maxpaused, e.paused) THEN set_state(1, s1) ELSE s1
        s3 == IF IsSet(a.maxstopped) /\ Above(a.maxstopped, e.stopped) THEN set_state(1, s2) ELSE s2
        s4 == IF IsSet(a.maximages) /\ Above(a.maximages, e.images) THEN set_state(1, s3) ELSE s3
        s5 == IF IsSet(a.maxvolumes) /\ Above(a.maxvolumes, e.volcount) THEN set_state(1, s4) ELSE s4
    IN  s5

(* main() of the engine check, lines 304-316. *)
engine_return_code(a, e) ==
    LET s0 == 0
        s1 == IF IsSet(a.minrunning) /\ Under(a.minrunning, e.running) THEN set_state(1, s0) ELSE s0
        s2 == IF IsSet(a.maxpaused) /\ Above(a.maxpaused, e.paused) THEN set_state(1, s1) ELSE s1
        s3 == IF IsSet(a.maxstopped) /\ Above(a.maxstopped, e.stopped) THEN set_state(1, s2) ELSE s2
        s4 == IF IsSet(a.maximages) /\ Above(a.maximages, e.images) THEN set_state(1, s3) ELSE s3
        s5 == IF IsSet(a.maxvolumes) /\ Above(a.maxvolumes, e.volcount) THEN set_state(1, s4) ELSE s4
    IN  s5

CheckIdle ==
    /\ cprog = "container" /\ cpc = "idle" /\ sent = <<>> /\ results = <<>>
    /\ cause = "none" /\ cinfo = NoInfo
    /\ derived = FALSE /\ cexit = NoExit

CheckInit ==
    /\ cprog \in Programs
    /\ cpc = IF cprog = "container" THEN "version" ELSE "info"
    /\ sent = <<>>
    /\ results = <<>>
    /\ cause = "none"
    /\ cinfo = NoInfo
    /\ derived = FALSE
    /\ cexit = NoExit

(* Container check, main() lines 367-374: GET /version and the API version *)
(* test.  The reply either lacks MinAPIVersion (KeyError, uncaught), names *)
(* a version the comparison rejects, or one it accepts.                    *)
GetVersion ==
    /\ cpc = "version"
    /\ \E x \in ExchangeResults, minapi \in {"missing", "newer", "supported"} :
          /\ Request("/version", x)
          /\ IF Broken(x) THEN EndBroken(x)
             ELSE IF ~http_status_ok(x.status) THEN Exit(2, "http")
             ELSE IF minapi = "missing" THEN Crash("KeyError")
             ELSE IF minapi = "newer" THEN Exit(2, "api_version")
             ELSE cpc' = "lookup" /\ UNCHANGED <<cause, cexit>>
    /\ UNCHANGED <<cprog, cinfo, derived>>

(* main() line 378: get_container_from_name, its request and its lookup.   *)
(* Of the objects of the reply the lookup reads Names only; the object it  *)
(* returns goes to main() as it came, with or without its "Id", "Names",   *)
(* "State" and "Status" entries.                                           *)
LookupContainer ==
    /\ cpc = "lookup"
    /\ \E x \in ExchangeResults :
          /\ Request("/containers/json", x)
          /\ IF Broken(x) THEN EndBroken(x) /\ UNCHANGED cinfo
             ELSE IF ~http_status_ok(x.status) THEN Exit(2, "http") /\ UNCHANGED cinfo
             ELSE \E a \in LookupArgs, response \in Responses,
                     status \in StatusTexts, absent \in SUBSET {"State", "Status"} :
                  LET r == get_container_from_name(a, response)
                  IN  IF r.kind = "exit"
                      THEN Exit(r.code, "lookup") /\ UNCHANGED cinfo
                      ELSE IF r.kind = "crash"
                      THEN Crash(r.exc) /\ UNCHANGED cinfo
                      ELSE /\ cinfo' = Without(r.info @@ [Status |-> status], absent)
                           /\ cpc' = "state"
                           /\ UNCHANGED <<cause, cexit>>
    /\ UNCHANGED <<cprog, derived>>

(* main() lines 380-382: container_info["State"] is read first; the       *)
(* message of the early exit reads container_info["Names"][0] and then     *)
(* container_info["Status"].  A missing entry (KeyError) and an empty      *)
(* Names list (IndexError) are caught by nothing.                          *)
CheckRunning ==
    /\ cpc = "state"
    /\ IF "State" \notin DOMAIN cinfo THEN Crash("KeyError")
       ELSE IF cinfo.State # "running"
       THEN IF "Names" \notin DOMAIN cinfo THEN Crash("KeyError")
            ELSE IF cinfo.Names = {} THEN Crash("IndexError")
            ELSE IF "Status" \notin DOMAIN cinfo THEN Crash("KeyError")
            ELSE Exit(2, "not_running")
       ELSE cpc' = "stats" /\ UNCHANGED <<cause, cexit>>
    /\ UNCHANGED <<cprog, sent, results, cinfo, derived>>

(* What the stats payload makes of calc_container_metrics, lines 301-352: *)
(* the metrics; a KeyError (a missing entry, caught at line 355) or no     *)
(* memory values for either cgroup version (line 333), both exit_plugin(2); *)
(* a ZeroDivisionError (equal system_cpu_usage in cpu_stats and            *)
(* precpu_stats) or a TypeError (a payload that is no object, a null       *)
(* value), which the handler does not catch.                               *)
StatsOutcomes == {"metrics", "KeyError", "no_memory_values",
                  "ZeroDivisionError", "TypeError"}

(* main() lines 384-431: the request is built from container_info["Id"]   *)
(* (KeyError, uncaught, before anything is sent); then GET the stats,      *)
(* derive the metrics, fold the thresholds, exit.  calc_container_metrics  *)
(* reads info["Names"][0] first (KeyError without the entry, caught;       *)
(* IndexError on an empty list, uncaught), then info["State"] and          *)
(* info["Status"] (KeyError, caught), then the stats payload.              *)
GetStatsAndEvaluate ==
    /\ cpc = "stats"
    /\ IF "Id" \notin DOMAIN cinfo
       THEN Crash("KeyError") /\ UNCHANGED <<sent, results, derived>>
       ELSE \E x \in ExchangeResults, stats \in StatsOutcomes :
          /\ Request("/containers/id/stats", x)
          /\ IF Broken(x) THEN EndBroken(x) /\ UNCHANGED derived
             ELSE IF ~http_status_ok(x.status) THEN Exit(2, "http") /\ UNCHANGED derived
             ELSE IF "Names" \notin DOMAIN cinfo THEN Exit(2, "KeyError") /\ UNCHANGED derived
             ELSE IF cinfo.Names = {} THEN Crash("IndexError") /\ UNCHANGED derived
             ELSE IF "Status" \notin DOMAIN cinfo THEN Exit(2, "KeyError") /\ UNCHANGED derived
             ELSE IF stats \in {"KeyError", "no_memory_values"}
             THEN Exit(2, stats) /\ UNCHANGED derived
             ELSE IF stats \in {"ZeroDivisionError", "TypeError"}
             THEN Crash(stats) /\ UNCHANGED derived
             ELSE \E a \in ArgsSet, c \in ContainerSet :
                        /\ c.state = cinfo.State
                        /\ c.status = cinfo.Status
                        /\ derived' = TRUE
                        /\ Exit(determine_return_code(a, c), "thresholds")
    /\ UNCHANGED <<cprog, cinfo>>

(* Engine check: the first task of asyncio.gather, send_http_get('/info'). *)
(* The coroutine never awaits, so it runs to its end before the second     *)
(* task starts; it returns the status without looking at it.  An           *)
(* exit_plugin inside it ends the process (SystemExit stops the loop); a   *)
(* ValueError or OSError is kept in the task until the join, and the       *)
(* second task still runs.                                                 *)
GetInfo ==
    /\ cpc = "info"
    /\ \E x \in ExchangeResults :
          /\ Request("/info", x)
          /\ IF x.kind = "error" THEN EndBroken(x)
             ELSE /\ cpc' = "volumes"
                  /\ cause' = IF x.kind \in RaisedKinds THEN x.kind ELSE cause
                  /\ UNCHANGED cexit
    /\ UNCHANGED <<cprog, cinfo, derived>>

(* The second task, send_http_get('/volumes'), and the join: gather raises *)
(* the exception the first task holds, else the second task's, out of      *)
(* run_until_complete.                                                     *)
GetVolumes ==
    /\ cpc = "volumes"
    /\ \E x \in ExchangeResults :
          /\ Request("/volumes", x)
          /\ IF x.kind = "error" THEN EndBroken(x)
             ELSE IF cause \in RaisedKinds THEN Crash(cause)
             ELSE IF x.kind \in RaisedKinds THEN Crash(x.kind)
             ELSE cpc' = "joined" /\ UNCHANGED <<cause, cexit>>
    /\ UNCHANGED <<cprog, cinfo, derived>>

(* main() lines 284-337 after the join: the status of both replies         *)
(* (exit_plugin(3) unless 200), the JSON of both (exit_plugin(3) when      *)
(* json.loads fails), parse_docker_sysinfo (exit_plugin(3) on a missing    *)
(* field), the "Volumes" entry (KeyError, uncaught), the thresholds.       *)
EvaluateEngine ==
    /\ cpc = "joined"
    /\ IF results[1].status \notin {200} \/ results[2].status \notin {200}
       THEN Exit(3, "http") /\ UNCHANGED derived
       ELSE \/ Exit(3, "JSONDecodeError") /\ UNCHANGED derived
            \/ Exit(3, "KeyError") /\ UNCHANGED derived
            \/ Crash("KeyError") /\ UNCHANGED derived
            \/ \E a \in EngineArgs, e \in EngineStates :
                  /\ derived' = TRUE
                  /\ Exit(engine_return_code(a, e), "thresholds")
    /\ UNCHANGED <<cprog, sent, results, cinfo>>

----------------------------------------------------------------------------
(* The engine check after the join, main() lines 301-337, on the two       *)
(* parsed payloads.  A payload is the dict json.loads gave: a function     *)
(* from the keys it holds to their values.  Of docker_volinfo["Volumes"]   *)
(* only the length is read, so the model keeps the length.                 *)

(* The keys parse_docker_sysinfo reads, in the order it reads them. *)
SysinfoKeys == <<"Containers", "ContainersRunning", "ContainersPaused",
                 "ContainersStopped", "Images", "NCPU", "MemTotal", "Name",
                 "ServerVersion">>
SysinfoKeySet == {SysinfoKeys[i] : i \in 1 .. Len(SysinfoKeys)}

(* A complete /info payload with the counts of e. *)
Sysinfo(e) ==
    [k \in SysinfoKeySet |->
        CASE k = "Containers" -> e.running + e.paused + e.stopped
          [] k = "ContainersRunning" -> e.running
          [] k = "ContainersPaused" -> e.paused
          [] k = "ContainersStopped" -> e.stopped
          [] k = "Images" -> e.images
          [] k = "Name" -> "host1"
          [] k = "ServerVersion" -> "24.0"
          [] OTHER -> 0]
Volinfo(e) == [k \in {"Volumes"} |-> e.volcount]

MinOf(S) == CHOOSE x \in S : \A y \in S : x <= y
NoEngineState == [running |-> 0, paused |-> 0, stopped |-> 0, images |-> 0]
NoThresholds == [t \in EngineThresholds |-> None]

(* parse_docker_sysinfo, lines 185-219: the first key that is missing      *)
(* raises KeyError, which ends the check with exit_plugin(3, ...) and the  *)
(* key in the message; otherwise the counts.                               *)
parse_docker_sysinfo(d) ==
    LET missing == {i \in 1 .. Len(SysinfoKeys) : SysinfoKeys[i] \notin DOMAIN d}
    IN  IF missing # {}
        THEN ExitPlugin(3, SysinfoKeys[MinOf(missing)])
        ELSE [kind |-> "state",
              state |-> [running |-> d["ContainersRunning"],
                         paused |-> d["ContainersPaused"],
                         stopped |-> d["ContainersStopped"],
                         images |-> d["Images"]]]

EngineIdle ==
    /\ eargs = NoThresholds
    /\ docker_sysinfo = <<>>
    /\ docker_volinfo = <<>>
    /\ engine_state = NoEngineState
    /\ epc = "idle"
    /\ eresult = NoResult

(* Both replies had status 200 and parsed as JSON objects.  Either both    *)
(* payloads are complete, with any counts and any thresholds, or some of   *)
(* their keys are missing; the counts next to a missing key are never      *)
(* compared with a threshold, so they stay 0 then.                         *)
EngineInit ==
    /\ epc = "parse"
    /\ engine_state = NoEngineState
    /\ eresult = NoResult
    /\ \/ /\ eargs \in EngineArgs
          /\ \E e \in EngineStates :
                /\ docker_sysinfo = Sysinfo(e)
                /\ docker_volinfo = Volinfo(e)
       \/ /\ eargs = NoThresholds
          /\ \E keys \in (SUBSET (SysinfoKeySet \cup {"Volumes"})) \ {{}} :
                LET e == [running |-> 0, paused |-> 0, stopped |-> 0,
                          images |-> 0, volcount |-> 0]
                IN  /\ docker_sysinfo = Without(Sysinfo(e), keys)
                    /\ docker_volinfo = Without(Volinfo(e), keys)

(* main() line 301. *)
ParseDockerSysinfo ==
    /\ epc = "parse"
    /\ LET r == parse_docker_sysinfo(docker_sysinfo)
       IN  IF r.kind = "exit"
           THEN /\ eresult' = r
                /\ epc' = "exited"
                /\ UNCHANGED engine_state
           ELSE /\ engine_state' = r.state
                /\ epc' = "volumes"
                /\ UNCHANGED eresult
    /\ UNCHANGED <<eargs, docker_sysinfo, docker_volinfo>>

(* main() lines 302-337: the volume count (a KeyError here has no          *)
(* handler), the threshold checks and exit_plugin(state, ...).             *)
CountVolumesAndExit ==
    /\ epc = "volumes"
    /\ IF "Volumes" \notin DOMAIN docker_volinfo
       THEN /\ eresult' = Uncaught("KeyError", "Volumes")
            /\ epc' = "crashed"
       ELSE LET e == [running |-> engine_state.running,
                      paused |-> engine_state.paused,
                      stopped |-> engine_state.stopped,
                      images |-> engine_state.images,
                      volcount |-> docker_volinfo["Volumes"]]
            IN  /\ eresult' = ExitPlugin(engine_return_code(eargs, e), "thresholds")
                /\ epc' = "exited"
    /\ UNCHANGED <<eargs, docker_sysinfo, docker_volinfo, engine_state>>

----------------------------------------------------------------------------
(* convert_to_bytes (parseSize) of the podman check.  Its program text is  *)
(* not among the sources; the operator follows section 4.1 of the          *)
(* specification and the unit test test_podman_metric_unit_detection.      *)
(* A size text is a sequence of characters.  Python integers are unbounded, *)
(* so a byte count is kept as its sequence of decimal digits, most         *)
(* significant first.  Literals with a fraction (a decimal point or a      *)
(* negative exponent) are outside the model.                               *)

DigitChars == <<"0", "1", "2", "3", "4", "5", "6", "7", "8", "9">>
IsDigit(c) == \E i \in 1 .. Len(DigitChars) : DigitChars[i] = c
DigitVal(c) == (CHOOSE i \in 1 .. Len(DigitChars) : DigitChars[i] = c) - 1
IsAlpha(c) == c \in {"B", "k", "K", "M", "G", "T", "i", "X", "e"}

(* Decimal and binary suffixes: the base and the power of the multiplier. *)
Units ==
    [B |-> <<1000, 0>>, kB |-> <<1000, 1>>, KB |-> <<1000, 1>>,
     MB |-> <<1000, 2>>, GB |-> <<1000, 3>>, TB |-> <<1000, 4>>,
     KiB |-> <<1024, 1>>, MiB |-> <<1024, 2>>, GiB |-> <<1024, 3>>,
     TiB |-> <<1024, 4>>]
UnitChars(u) ==
    CASE u = "B" -> <<"B">>
      [] u = "kB" -> <<"k", "B">>
      [] u = "KB" -> <<"K", "B">>
      [] u = "MB" -> <<"M", "B">>
      [] u = "GB" -> <<"G", "B">>
      [] u = "TB" -> <<"T", "B">>
      [] u = "KiB" -> <<"K", "i", "B">>
      [] u = "MiB" -> <<"M", "i", "B">>
      [] u = "GiB" -> <<"G", "i", "B">>
      [] u = "TiB" -> <<"T", "i", "B">>
      [] u = "XB" -> <<"X", "B">>
      [] OTHER -> <<>>

(* Arithmetic on digit sequences. *)
RECURSIVE StripZeros(_)
StripZeros(ds) ==
    IF Len(ds) > 1 /\ ds[1] = 0 THEN StripZeros(Tail(ds)) ELSE ds
RECURSIVE MulCarry(_, _, _)
MulCarry(ds, k, carry) ==
    IF ds = <<>>
    THEN IF carry = 0 THEN <<>> ELSE MulCarry(<<>>, k, carry \div 10) \o <<carry % 10>>
    ELSE LET v == ds[Len(ds)] * k + carry
         IN  MulCarry(SubSeq(ds, 1, Len(ds) - 1), k, v \div 10) \o <<v % 10>>
Times(ds, k) == StripZeros(MulCarry(ds, k, 0))
RECURSIVE TimesPower(_, _, _)
TimesPower(ds, base, n) ==
    IF n = 0 THEN StripZeros(ds) ELSE TimesPower(Times(ds, base), base, n - 1)

Bytes(ds) == [kind |-> "bytes", digits |-> ds]
UnknownUnit == [kind |-> "UnknownUnit"]

(* Whitespace at both ends removed. *)
Strip(s) ==
    LET inked == {i \in 1 .. Len(s) : s[i] # " "}
    IN  IF inked = {} THEN <<>> ELSE SubSeq(s, MinOf(inked), MaxOf(inked))

(* The numeric literal: digits, then optionally e+ and digits.  Gives the  *)
(* digits of its value, or <<>> when the text is no such literal.          *)
LiteralValue(s) ==
    LET es == {i \in 1 .. Len(s) : s[i] = "e"}
        mant == IF es = {} THEN s ELSE SubSeq(s, 1, MinOf(es) - 1)
        expo == IF es = {} THEN <<>> ELSE SubSeq(s, MinOf(es) + 2, Len(s))
        AllDigits(x) == Len(x) > 0 /\ \A i \in 1 .. Len(x) : IsDigit(x[i])
        Val(x) == [i \in 1 .. Len(x) |-> DigitVal(x[i])]
    IN  IF ~AllDigits(mant) THEN <<>>
        ELSE IF es = {} THEN StripZeros(Val(mant))
        ELSE IF Len(s) < MinOf(es) + 2 \/ s[MinOf(es) + 1] # "+" \/ Len(expo) # 1
                \/ ~AllDigits(expo)
        THEN <<>>
        ELSE TimesPower(Val(mant), 10, DigitVal(expo[1]))

(* The conversion with every suffix taken as a decimal one. *)
convert_to_bytes_decimal_only(inputstr) ==
    LET s == Strip(inputstr)
        alpha == {i \in 1 .. Len(s) + 1 : \A j \in i .. Len(s) : IsAlpha(s[j])}
        cut == MinOf(alpha)
        unit == SubSeq(s, cut, Len(s))
        value == LiteralValue(Strip(SubSeq(s, 1, cut - 1)))
        known == {u \in DOMAIN Units : UnitChars(u) = unit}
    IN  IF value = <<>> \/ unit = <<>> THEN Bytes(<<0>>)
        ELSE IF known = {} THEN UnknownUnit
        ELSE LET u == CHOOSE u \in known : TRUE
             IN  Bytes(TimesPower(value, 1000, Units[u][2]))

(* convert_to_bytes(inputstr): the trailing letters are the unit, what is  *)
(* before them the numeric literal; a text without a literal or without a  *)
(* unit gives 0, a unit that is not supported is a failure.                *)
convert_to_bytes(inputstr) ==
    LET s == Strip(inputstr)
        alpha == {i \in 1 .. Len(s) + 1 : \A j \in i .. Len(s) : IsAlpha(s[j])}
        cut == MinOf(alpha)
        unit == SubSeq(s, cut, Len(s))
        value == LiteralValue(Strip(SubSeq(s, 1, cut - 1)))
        known == {u \in DOMAIN Units : UnitChars(u) = unit}
    IN  IF value = <<>> \/ unit = <<>> THEN Bytes(<<0>>)
        ELSE IF known = {} THEN UnknownUnit
        ELSE LET u == CHOOSE u \in known : TRUE
             IN  Bytes(TimesPower(value, Units[u][1], Units[u][2]))

(* The texts of the model: a mantissa of up to MaxDigits digits, an        *)
(* optional exponent e+N, an optional blank and a suffix (none, a          *)
(* supported one, or the unsupported XB); and the placeholder "--".        *)
MantissaDigits == {"0", "1", "2", "5"}
Mantissas == UNION {[1 .. n -> MantissaDigits] : n \in 1 .. MaxDigits}
SizeParts ==
    [kind : {"size"}, mantissa : Mantissas, exponent : {-1} \cup 0 .. MaxExp,
     blank : BOOLEAN, unit : DOMAIN Units \cup {"", "XB"}]
        \cup {[kind |-> "placeholder"]}
SizeText(p) ==
    IF p.kind = "placeholder" THEN <<"-", "-">>
    ELSE p.mantissa
         \o (IF p.exponent < 0 THEN <<>> ELSE <<"e", "+", DigitChars[p.exponent + 1]>>)
         \o (IF p.blank THEN <<" ">> ELSE <<>>)
         \o UnitChars(p.unit)

NoBytes == [kind |-> "none"]
SizeIdle ==
    /\ size_parts = [kind |-> "placeholder"]
    /\ size_text = <<>>
    /\ size_bytes = NoBytes

SizeInit ==
    /\ size_parts \in SizeParts
    /\ size_text = SizeText(size_parts)
    /\ size_bytes = NoBytes

CallConvertToBytes ==
    /\ size_bytes = NoBytes
    /\ size_bytes' = convert_to_bytes(size_text)
    /\ UNCHANGED <<size_parts, size_text>>

----------------------------------------------------------------------------
(* The two endpoint calls of the engine check, main() lines 276-288.       *)
(* asyncio.gather wraps both coroutines in tasks; send_http_get never      *)
(* awaits, so a task runs from its first line to its last without the      *)
(* other one running in between.  CPython's loop starts the tasks in the   *)
(* order of the arguments, /info first; which task the loop starts first   *)
(* is left open here (order), to compare the outcomes.  replies is what    *)
(* the daemon and the socket give each endpoint's exchange, gsent the      *)
(* requests sent so far.  gather hands the results back by position, so    *)
(* state is the result of /info and volumes that of /volumes in either     *)
(* order.                                                                  *)

Endpoints == {"/info", "/volumes"}
Orders == {<<"/info", "/volumes">>, <<"/volumes", "/info">>}

GatherIdle ==
    /\ order = <<"/info", "/volumes">>
    /\ replies = [ep \in Endpoints |-> [kind |-> "reply", status |-> 200]]
    /\ gsent = <<>>
    /\ gpc = "idle"
    /\ gcause = "none"
    /\ gexit = NoExit

GatherInit ==
    /\ order \in Orders
    /\ replies \in [Endpoints -> ExchangeResults]
    /\ gsent = <<>>
    /\ gpc = "first"
    /\ gcause = "none"
    /\ gexit = NoExit

(* One task: send_http_get(endpoint) with its send_socket_cmd.  An         *)
(* exception its handlers name ends the process through exit_plugin        *)
(* (SystemExit stops the loop at once); any other exception or a result    *)
(* stays in the finished task.                                             *)
RunTask(ep, next) ==
    /\ gsent' = Append(gsent, ep)
    /\ IF replies[ep].kind = "error"
       THEN /\ gpc' = "exited"
            /\ gcause' = "transport"
            /\ gexit' = Exited(transport_exit(replies[ep].exc))
       ELSE /\ gpc' = next
            /\ UNCHANGED <<gcause, gexit>>
    /\ UNCHANGED <<order, replies>>

(* The first task with its exception raised at once. *)
RunFirstTaskRaising ==
    /\ gpc = "first"
    /\ IF replies[order[1]].kind \in RaisedKinds
       THEN /\ gsent' = Append(gsent, order[1])
            /\ gpc' = "crashed"
            /\ gcause' = replies[order[1]].kind
            /\ UNCHANGED <<order, replies, gexit>>
       ELSE RunTask(order[1], "second")

RunFirstTask ==
    /\ gpc = "first"
    /\ RunTask(order[1], "second")

RunSecondTask ==
    /\ gpc = "second"
    /\ RunTask(order[2], "join")

(* Both tasks are done: run_until_complete raises the exception a task     *)
(* holds (the first task's when both hold one), or returns both results    *)
(* (state, volumes) and the loop is closed.                                *)
Join ==
    /\ gpc = "join"
    /\ IF replies[order[1]].kind \in RaisedKinds
       THEN gpc' = "crashed" /\ gcause' = replies[order[1]].kind
       ELSE IF replies[order[2]].kind \in RaisedKinds
       THEN gpc' = "crashed" /\ gcause' = replies[order[2]].kind
       ELSE gpc' = "joined" /\ UNCHANGED gcause
    /\ UNCHANGED <<order, replies, gsent, gexit>>

(* main() lines 284-288: the status of both replies; then the JSON of      *)
(* both is parsed and the thresholds are evaluated.                        *)
CheckHttpStatus ==
    /\ gpc = "joined"
    /\ IF replies["/info"].status \notin {200} \/ replies["/volumes"].status \notin {200}
       THEN /\ gpc' = "exited"
            /\ gcause' = "http"
            /\ gexit' = Exited(3)
       ELSE /\ gpc' = "parse"
            /\ UNCHANGED <<gcause, gexit>>
    /\ UNCHANGED <<order, replies, gsent>>

----------------------------------------------------------------------------
(* Properties of the severity update rule (SpecSeverity).  sevPrev is the  *)
(* current value before the last call, Last(sevCands) its candidate.       *)

Last(s) == s[Len(s)]

\* C1: combine(OK, WARNING) is WARNING, and a candidate of UNKNOWN leaves a
\* current value of WARNING or CRITICAL as it is (so combine(WARNING,
\* UNKNOWN) is WARNING).
C1_UnknownKeepsBreach ==
    Len(sevCands) > 0 =>
        /\ (sevPrev = OK /\ Last(sevCands) = WARNING => sevState = WARNING)
        /\ (sevPrev \in {WARNING, CRITICAL} /\ Last(sevCands) = UNKNOWN
                => sevState = sevPrev)

\* C2: CRITICAL is absorbing: once the start value or any candidate of the
\* fold is CRITICAL, the folded value is CRITICAL, whatever follows.
C2_CriticalAbsorbing ==
    (sevStart = CRITICAL \/ \E i \in 1 .. Len(sevCands) : sevCands[i] = CRITICAL)
        => sevState = CRITICAL

C2_Witness ==
    /\ Len(sevCands) = 3
    /\ sevStart = WARNING
    /\ sevCands = <<CRITICAL, UNKNOWN, OK>>
    /\ sevState = CRITICAL

\* C3: the rule is associative: with a the start value and b, c the two
\* candidates, combine(combine(a, b), c), which is the folded value, equals
\* combine(a, combine(b, c)).
C3_Associative ==
    Len(sevCands) = 2 =>
        sevState = set_state(set_state(sevCands[2], sevCands[1]), sevStart)

----------------------------------------------------------------------------
(* The final severity of the container check (SpecThresholds).             *)

CritBreach ==
    \/ container.state # "running"
    \/ IsSet(args.cpucrit) /\ Below(args.cpucrit, container.cpu_pct)
    \/ IsSet(args.memcrit) /\ Below(args.memcrit, container.memory_used)
    \/ IsSet(args.pidcrit) /\ Below(args.pidcrit, container.pid_count)

WarnBreach ==
    \/ Contains(container.status, "(unhealthy)")
    \/ IsSet(args.cpuwarn) /\ Below(args.cpuwarn, container.cpu_pct)
    \/ IsSet(args.memwarn) /\ Below(args.memwarn, container.memory_used)
    \/ IsSet(args.pidwarn) /\ Below(args.pidwarn, container.pid_count)

\* C4: the final severity is CRITICAL exactly when the container is not
\* running or a configured crit threshold is strictly below its metric,
\* otherwise WARNING exactly when the status text holds "(unhealthy)" or a
\* configured warn threshold is strictly below its metric, otherwise OK.
C4_FinalSeverity ==
    tpc = "exited" =>
        returncode = IF CritBreach THEN CRITICAL
                     ELSE IF WarnBreach THEN WARNING
                     ELSE OK

\* A running container whose CPU metric breaches both its warn and its crit
\* threshold, with the memory thresholds unset: the crit breach dominates.
C4_Witness ==
    /\ tpc = "exited"
    /\ container.state = "running"
    /\ args.cpuwarn = {0} /\ args.cpucrit = {0} /\ container.cpu_pct = 1
    /\ args.memwarn = None /\ args.memcrit = None /\ container.memory_used = 1
    /\ returncode = CRITICAL

----------------------------------------------------------------------------
(* The completeness predicate on header-only and complete buffers          *)
(* (SpecValid).                                                            *)

IsHeaderLine(line) == line # <<>> /\ \A i \in 1 .. Len(line) : line[i] = "h"

(* The buffer is header lines, then a blank line, then `rest` lines. *)
HeadersThenBlank(lines, rest) ==
    /\ Len(lines) >= 2 + rest
    /\ \A i \in 1 .. Len(lines) - 1 - rest : IsHeaderLine(lines[i])
    /\ lines[Len(lines) - rest] = <<>>

HeadersOnly(text) == HeadersThenBlank(splitlines(text), 0)

(* Header lines, a blank line, and one line that is a JSON value starting  *)
(* with one of `starts`. *)
HeadersAndJson(text, starts) ==
    LET lines == splitlines(text)
    IN  /\ HeadersThenBlank(lines, 1)
        /\ Last(lines) # <<>>
        /\ Last(lines)[1] \in starts
        /\ json_loads_ok(Last(lines))

\* C5 as stated: in both programs the predicate is false on header lines
\* followed by a blank line, and true once a line that is a valid JSON value
\* starting with "{" or with "[" follows the blank line.
C5_BothPrograms ==
    verdict # "none" =>
        /\ (HeadersOnly(buffer) => verdict = "False")
        /\ (HeadersAndJson(buffer, {"{", "["}) => verdict = "True")

\* C5 as amended: the above holds in the container check; in the engine
\* check the predicate is true only for a JSON line starting with "{", and
\* false when the line after the blank line is a JSON array.
C5_PerProgram ==
    verdict # "none" =>
        /\ (HeadersOnly(buffer) => verdict = "False")
        /\ (HeadersAndJson(buffer, {"{"}) => verdict = "True")
        /\ (HeadersAndJson(buffer, {"["}) =>
                verdict = IF vprog = "container" THEN "True" ELSE "False")

C5_Witness ==
    /\ vprog = "container"
    /\ buffer = <<"h", "NL", "NL", "[", "]">>
    /\ verdict = "True"

(* The buffer ends inside the header block: header lines, no blank line. *)
InsideHeaders(text) ==
    LET lines == splitlines(text)
    IN  Len(lines) >= 1 /\ \A i \in 1 .. Len(lines) : IsHeaderLine(lines[i])

(* Header lines, a blank line, and the beginning of a JSON body line. *)
TruncatedBody(text) ==
    LET lines == splitlines(text)
    IN  /\ HeadersThenBlank(lines, 1)
        /\ Last(lines) # <<>>
        /\ Last(lines)[1] \in {"{", "["}
        /\ ~json_loads_ok(Last(lines))

\* C15: on every non-empty buffer the predicate returns a verdict and raises
\* no error; on a buffer that ends inside the header block, before any blank
\* line, and on one whose body line is truncated JSON, the verdict is false.
C15_TotalOnPartial ==
    (verdict # "none" /\ Len(buffer) > 0) =>
        /\ verdict \in {"True", "False"}
        /\ (InsideHeaders(buffer) => verdict = "False")
        /\ (TruncatedBody(buffer) => verdict = "False")

----------------------------------------------------------------------------
(* The socket exchange (SpecSocket, FairSocket).                           *)

Ended == pc \in {"returned", "exited", "crashed"}

\* C6: every exchange eventually finishes, whatever the peer does: the read
\* loop does not run forever.
C6_ExchangeEnds == <>Ended

\* C7: the connection is closed on every exit path of the call: when the
\* call has ended, the socket it connected is not left open.
C7_ClosedOnEveryExit == Ended => sock # "connected"

----------------------------------------------------------------------------
(* The container lookup (SpecLookup).                                      *)

NamedLike(cnt) == "Names" \in DOMAIN cnt /\ ("/" \o largs.container_name) \in cnt.Names
MatchingPositions == {i \in 1 .. Len(lresponse) : NamedLike(lresponse[i])}
NoMatch == ExitPlugin(CRITICAL, "No container matched name")
MultipleMatch == ExitPlugin(CRITICAL, "Multiple containers matched wildcard name")

WildcardLookup ==
    largs.wildcard =>
        /\ (Len(lresponse) = 0 => lresult = NoMatch)
        /\ (Len(lresponse) = 1 => lresult = Found(lresponse[1]))
        /\ (Len(lresponse) > 1 => lresult = MultipleMatch)

\* C10: in wildcard mode the single result is returned without a
\* name comparison, zero results fail with "no container matched" and more
\* than one with "multiple containers matched"; in exact mode a container is
\* returned only if exactly one returned container has the requested name,
\* otherwise the check fails with "no container matched".
C10_ExactlyOneMatch ==
    lresult # NoResult =>
        /\ WildcardLookup
        /\ ~largs.wildcard =>
              IF Cardinality(MatchingPositions) = 1
              THEN \E i \in MatchingPositions : lresult = Found(lresponse[i])
              ELSE lresult = NoMatch

----------------------------------------------------------------------------
(* Failures of an exchange in the run of a check (SpecCheck).              *)

Is2xx(status) == status >= 200 /\ status < 300
CheckEnded == cpc \in {"exited", "crashed"}
Non2xxReply(i) == results[i].kind = "reply" /\ ~Is2xx(results[i].status)
(* An exchange that failed on the socket: an exception the handlers name,  *)
(* or the OSError connect raises for a path they do not expect.            *)
TransportFailure(i) == results[i].kind \in {"error", "OSError"}

\* C8: a reply with a non-2xx status aborts the whole check with severity
\* CRITICAL, in the container check and in the engine check: when the check
\* ends on the HTTP status of a reply, every non-2xx reply it got was the
\* last request it sent, no metrics are derived, and the severity is CRITICAL.
C8_Non2xxAbortsCritical ==
    (cpc = "exited" /\ cause = "http") =>
        \A i \in 1 .. Len(results) :
            Non2xxReply(i) =>
                /\ cexit = Exited(CRITICAL)
                /\ ~derived
                /\ Len(sent) = i

\* C9: a transport failure of an exchange ends the check with severity
\* UNKNOWN: the failed request is the last one sent, it was sent once, and
\* no metrics are derived and no threshold is evaluated.
C9_TransportFailureUnknown ==
    \A i \in 1 .. Len(results) :
        TransportFailure(i) =>
            /\ cpc = "exited"
            /\ cexit = Exited(UNKNOWN)
            /\ cause = "transport"
            /\ ~derived
            /\ Len(sent) = i
            /\ \A j \in 1 .. i - 1 : sent[j] # sent[i]

----------------------------------------------------------------------------
(* The engine check after the join (SpecEngine).                           *)

EngineEnded == epc \in {"exited", "crashed"}
MissingKeys ==
    (SysinfoKeySet \ DOMAIN docker_sysinfo) \cup ({"Volumes"} \ DOMAIN docker_volinfo)
EngineBreach ==
    \/ \E t \in eargs.minrunning : docker_sysinfo["ContainersRunning"] < t
    \/ \E t \in eargs.maxpaused : docker_sysinfo["ContainersPaused"] > t
    \/ \E t \in eargs.maxstopped : docker_sysinfo["ContainersStopped"] > t
    \/ \E t \in eargs.maximages : docker_sysinfo["Images"] > t
    \/ \E t \in eargs.maxvolumes : docker_volinfo["Volumes"] > t

\* C11: when both payloads are complete the engine check ends with
\* exit_plugin, with WARNING exactly when a configured threshold is breached
\* (running count below minrunning, or paused, stopped, image or volume count
\* above its maximum) and with OK otherwise, never CRITICAL or UNKNOWN; so 3
\* running containers under a minrunning of 4 end in WARNING.
C11_EngineSeverity ==
    (EngineEnded /\ MissingKeys = {}) =>
        /\ eresult.kind = "exit"
        /\ eresult.code = IF EngineBreach THEN WARNING ELSE OK

C11_Witness ==
    /\ EngineEnded
    /\ MissingKeys = {}
    /\ docker_sysinfo["ContainersRunning"] = 3
    /\ eargs = [NoThresholds EXCEPT !["minrunning"] = {4}]
    /\ eresult.kind = "exit"
    /\ eresult.code = WARNING

\* C12: when a key the derivation reads is missing from a payload, the check
\* ends with exit_plugin, with CRITICAL and a message that names a missing
\* key; it ends neither with UNKNOWN nor with an exception no handler
\* catches.
C12_MissingFieldCritical ==
    (EngineEnded /\ MissingKeys # {}) =>
        /\ eresult.kind = "exit"
        /\ eresult.code = CRITICAL
        /\ eresult.output \in MissingKeys

----------------------------------------------------------------------------
(* The byte-unit conversion (SpecSize).                                    *)

Converted == size_bytes # NoBytes
TextIs(s) == size_text = s
GivesDigits(ds) == size_bytes = Bytes(ds)
(* The value of the parts: mantissa times 10^exponent times the suffix's   *)
(* multiplier, by counting up from the mantissa's digits.                  *)
PartsValue ==
    LET m == [i \in 1 .. Len(size_parts.mantissa) |-> DigitVal(size_parts.mantissa[i])]
        scaled == IF size_parts.exponent < 0 THEN StripZeros(m)
                  ELSE TimesPower(m, 10, size_parts.exponent)
        u == size_parts.unit
        base == IF u \in {"KiB", "MiB", "GiB", "TiB"} THEN 1024 ELSE 1000
        power == CASE u = "B" -> 0
                   [] u \in {"kB", "KB", "KiB"} -> 1
                   [] u \in {"MB", "MiB"} -> 2
                   [] u \in {"GB", "GiB"} -> 3
                   [] u \in {"TB", "TiB"} -> 4
    IN  TimesPower(scaled, base, power)

\* C13: convert_to_bytes gives, for a literal (with or without e+N, with or
\* without a blank before the suffix) and a supported suffix, the literal
\* times 1000^n for B, kB/KB, MB, GB, TB and times 1024^n for KiB, MiB, GiB,
\* TiB; it gives 0 for the placeholder "--"; "105 MB" gives 105000000,
\* "105TiB" 115448720916480, "512 B" 512 and "105e+3MB" 105000000000.
C13_ConvertToBytes ==
    Converted =>
        /\ (size_parts.kind = "size" /\ size_parts.unit \in DOMAIN Units
                => GivesDigits(PartsValue))
        /\ (size_parts.kind = "placeholder" => GivesDigits(<<0>>))
        /\ (TextIs(<<"1", "0", "5", " ", "M", "B">>)
                => GivesDigits(<<1, 0, 5, 0, 0, 0, 0, 0, 0>>))
        /\ (TextIs(<<"1", "0", "5", "T", "i", "B">>)
                => GivesDigits(<<1, 1, 5, 4, 4, 8, 7, 2, 0, 9, 1, 6, 4, 8, 0>>))
        /\ (TextIs(<<"5", "1", "2", " ", "B">>) => GivesDigits(<<5, 1, 2>>))
        /\ (TextIs(<<"1", "0", "5", "e", "+", "3", "M", "B">>)
                => GivesDigits(<<1, 0, 5, 0, 0, 0, 0, 0, 0, 0, 0, 0>>))

C13_Witness ==
    /\ TextIs(<<"1", "0", "5", "T", "i", "B">>)
    /\ GivesDigits(<<1, 1, 5, 4, 4, 8, 7, 2, 0, 9, 1, 6, 4, 8, 0>>)

----------------------------------------------------------------------------
(* The read loop over any sequence of reads (SpecReadLoop).                *)

RECURSIVE Concat(_)
Concat(ss) == IF ss = <<>> THEN <<>> ELSE ss[1] \o Concat(Tail(ss))

\* C14: whatever the reads return, every chunk received is in the buffer,
\* which is the text of the chunks concatenated in order; a read leaves the
\* loop only by the break, and only with a non-empty buffer on which the
\* completeness predicate holds, so that a buffer the call returns satisfies
\* the predicate.
C14_ReturnedBuffer ==
    /\ rbuf = decode(Concat(rchunks))
    /\ (rpc \in {"returned", "crashed"} =>
            /\ rpc = "returned"
            /\ Len(rbuf) > 0
            /\ check_valid_response(rprog, rbuf) = "True")

----------------------------------------------------------------------------
(* The two endpoint calls of the engine check and their join (SpecGather). *)

Failed(ep) == replies[ep].kind # "reply"
BothSent == {gsent[i] : i \in 1 .. Len(gsent)} = Endpoints
Evaluating == gpc \in {"joined", "parse"} \/ gcause = "http"
GatherEnded == gpc \in {"exited", "crashed", "parse"}
(* How the check ends for the given replies, whatever the order. *)
ExpectedEnd ==
    IF \E ep \in Endpoints : replies[ep].kind = "error" THEN <<"exited", Exited(UNKNOWN)>>
    ELSE IF \E ep \in Endpoints : replies[ep].kind \in RaisedKinds THEN <<"crashed", NoExit>>
    ELSE IF \E ep \in Endpoints : replies[ep].status # 200 THEN <<"exited", Exited(UNKNOWN)>>
    ELSE <<"parse", NoExit>>

\* C16: the status checks and what follows them start only when both
\* requests were sent and both exchanges gave a reply; when either call
\* fails the check does not go on to parse and evaluate; and how the check
\* ends depends on what the two exchanges give, not on the order in which
\* the two tasks run.
C16_JoinedAndOrderFree ==
    /\ (Evaluating => BothSent /\ \A ep \in Endpoints : ~Failed(ep))
    /\ ((\E ep \in Endpoints : Failed(ep)) => gpc # "parse")
    /\ (GatherEnded => <<gpc, gexit>> = ExpectedEnd)

C16_Witness ==
    /\ order = <<"/info", "/volumes">>
    /\ replies["/info"] = [kind |-> "ValueError"]
    /\ replies["/volumes"] = [kind |-> "error", exc |-> "TimeoutError"]
    /\ gsent = <<"/info", "/volumes">>
    /\ gpc = "exited"
    /\ gexit = Exited(UNKNOWN)

----------------------------------------------------------------------------
(* Specifications.  Each one runs one part of the programs and leaves    *)
(* the variables of the other parts at rest.                               *)

SeverityStart ==
    SeverityInit /\ ThresholdsIdle /\ ValidIdle /\ SocketIdle /\ LookupIdle /\ CheckIdle /\ EngineIdle /\ SizeIdle /\ LoopIdle /\ GatherIdle
SeverityNext ==
    ApplySetState /\ UNCHANGED <<thrVars, validVars, sockVars, lookVars, checkVars, engVars, sizeVars, loopVars, gatherVars>>
SpecSeverity == SeverityStart /\ [][SeverityNext]_vars

ThresholdsStart ==
    ThresholdsInit /\ SeverityIdle /\ ValidIdle /\ SocketIdle /\ LookupIdle /\ CheckIdle /\ EngineIdle /\ SizeIdle /\ LoopIdle /\ GatherIdle
ThresholdsRest == UNCHANGED <<sevVars, validVars, sockVars, lookVars, checkVars, engVars, sizeVars, loopVars, gatherVars>>
ThresholdsNext ==
    \/ ExitNotRunning /\ ThresholdsRest
    \/ EvaluateThresholds /\ ThresholdsRest
SpecThresholds == ThresholdsStart /\ [][ThresholdsNext]_vars

ValidStart ==
    ValidInit /\ SeverityIdle /\ ThresholdsIdle /\ SocketIdle /\ LookupIdle /\ CheckIdle /\ EngineIdle /\ SizeIdle /\ LoopIdle /\ GatherIdle
ValidRest == UNCHANGED <<sevVars, thrVars, sockVars, lookVars, checkVars, engVars, sizeVars, loopVars, gatherVars>>
ValidNext ==
    \/ AppendToBuffer /\ ValidRest
    \/ CallCheckValid /\ ValidRest
SpecValid == ValidStart /\ [][ValidNext]_vars

SocketStart ==
    SocketInit /\ SeverityIdle /\ ThresholdsIdle /\ ValidIdle /\ LookupIdle /\ CheckIdle /\ EngineIdle /\ SizeIdle /\ LoopIdle /\ GatherIdle
SocketRest == UNCHANGED <<sevVars, thrVars, validVars, lookVars, checkVars, engVars, sizeVars, loopVars, gatherVars>>
SocketProgramNext ==
    \/ Connect /\ SocketRest
    \/ Send /\ SocketRest
    \/ RecvData /\ SocketRest
    \/ RecvNothing /\ SocketRest
    \/ Sleep /\ SocketRest
    \/ CheckBuffer /\ SocketRest
    \/ RecvTimeout /\ SocketRest
    \/ RecvConnectionError /\ SocketRest
SocketPeerNext ==
    \/ PeerSend /\ SocketRest
    \/ PeerClose /\ SocketRest
    \/ PeerReset /\ SocketRest
SocketNext == SocketProgramNext \/ SocketPeerNext
SpecSocket == SocketStart /\ [][SocketNext]_vars

(* The process keeps running: once connected, a step of the call that     *)
(* stays possible is taken.  Nothing is assumed of the peer: sock.connect  *)
(* is called before settimeout, so it waits for as long as the peer does   *)
(* not accept, and no fairness is assumed of it.                           *)
FairSocket ==
    SocketStart /\ [][SocketNext]_vars /\ WF_vars(SocketProgramNext /\ pc # "connect")

LookupStart ==
    LookupInit /\ SeverityIdle /\ ThresholdsIdle /\ ValidIdle /\ SocketIdle /\ CheckIdle /\ EngineIdle /\ SizeIdle /\ LoopIdle /\ GatherIdle
LookupNext ==
    CallLookup /\ UNCHANGED <<sevVars, thrVars, validVars, sockVars, checkVars, engVars, sizeVars, loopVars, gatherVars>>
SpecLookup == LookupStart /\ [][LookupNext]_vars

CheckStart ==
    CheckInit /\ SeverityIdle /\ ThresholdsIdle /\ ValidIdle /\ SocketIdle /\ LookupIdle /\ EngineIdle /\ SizeIdle /\ LoopIdle /\ GatherIdle
CheckRest == UNCHANGED <<sevVars, thrVars, validVars, sockVars, lookVars, engVars, sizeVars, loopVars, gatherVars>>
CheckNext ==
    \/ GetVersion /\ CheckRest
    \/ LookupContainer /\ CheckRest
    \/ CheckRunning /\ CheckRest
    \/ GetStatsAndEvaluate /\ CheckRest
    \/ GetInfo /\ CheckRest
    \/ GetVolumes /\ CheckRest
    \/ EvaluateEngine /\ CheckRest
SpecCheck == CheckStart /\ [][CheckNext]_vars

EngineStart ==
    EngineInit /\ SeverityIdle /\ ThresholdsIdle /\ ValidIdle /\ SocketIdle /\ LookupIdle /\ CheckIdle /\ SizeIdle /\ LoopIdle /\ GatherIdle
EngineRest == UNCHANGED <<sevVars, thrVars, validVars, sockVars, lookVars, checkVars, sizeVars, loopVars, gatherVars>>
EngineNext ==
    \/ ParseDockerSysinfo /\ EngineRest
    \/ CountVolumesAndExit /\ EngineRest
SpecEngine == EngineStart /\ [][EngineNext]_vars

SizeStart ==
    SizeInit /\ SeverityIdle /\ ThresholdsIdle /\ ValidIdle /\ SocketIdle /\ LookupIdle /\ CheckIdle /\ EngineIdle /\ LoopIdle /\ GatherIdle
SizeNext ==
    CallConvertToBytes /\ UNCHANGED <<sevVars, thrVars, validVars, sockVars, lookVars, checkVars, engVars, loopVars, gatherVars>>
SpecSize == SizeStart /\ [][SizeNext]_vars

LoopStart ==
    LoopInit /\ SeverityIdle /\ ThresholdsIdle /\ ValidIdle /\ SocketIdle /\ LookupIdle /\ CheckIdle /\ EngineIdle /\ SizeIdle /\ GatherIdle
LoopRest == UNCHANGED <<sevVars, thrVars, validVars, sockVars, lookVars, checkVars, engVars, sizeVars, gatherVars>>
LoopNext ==
    \/ ReadNothing /\ LoopRest
    \/ ReadChunk /\ LoopRest
    \/ ReadRaises /\ LoopRest
SpecReadLoop == LoopStart /\ [][LoopNext]_vars

GatherStart ==
    GatherInit /\ SeverityIdle /\ ThresholdsIdle /\ ValidIdle /\ SocketIdle /\ LookupIdle /\ CheckIdle /\ EngineIdle /\ SizeIdle /\ LoopIdle
GatherRest == UNCHANGED <<sevVars, thrVars, validVars, sockVars, lookVars, checkVars, engVars, sizeVars, loopVars>>
GatherNext ==
    \/ RunFirstTask /\ GatherRest
    \/ RunSecondTask /\ GatherRest
    \/ Join /\ GatherRest
    \/ CheckHttpStatus /\ GatherRest
SpecGather == GatherStart /\ [][GatherNext]_vars

====
